---- MODULE Spec2Model ----
(***************************************************************************)
(* DuckTrack recorder: the Recorder QThread (src/ducktrack/recorder.py),   *)
(* its two pynput listeners, the threads that call stop_recording /        *)
(* pause_recording / resume_recording, and the OBS backend reached through *)
(* OBSClient (src/ducktrack/obs_client.py).                                *)
(*                                                                         *)
(* A step is the code a thread runs between two points at which another    *)
(* thread can change what it does next: entering `with self._lock:`; the   *)
(* body of the with block, taken while the lock is held; the test of the   *)
(* two flags in _add_event_to_queue; the time stamp and the put; the test  *)
(* of the loop in run(); the get() and the _log_event() that follows it;   *)
(* a backend call together with the thread-local code after it.            *)
(*                                                                         *)
(* time.perf_counter() is modelled by the number of flag transitions that  *)
(* precede the call (Now): two stamps are ordered like the transitions     *)
(* between them, which is all the properties below use.                    *)
(***************************************************************************)
EXTENDS Integers, Sequences, FiniteSets, TLC

\* ------------------------------------------------------------------ bounds
\* records of the listeners on the queue or in the log after which no
\* further input callback starts
MaxEvents == 2
\* backend requests that fail although the capture state allows them
MaxFaults == 1
\* pause transitions performed after which no further pause call is made
MaxPauses == 1
\* times the recorder thread is started (run() entered) under SpecRestart
MaxRuns == 2

\* ----------------------------------------------------------------- threads
Listeners == {"mouse", "keyboard"}
Callers   == {"ui", "hook"}
Producers == Listeners \cup Callers
Ops       == {"stop", "pause", "resume"}

\* the callbacks of each listener. on_move, on_click and on_scroll run on the
\* mouse listener's thread and on_press, on_release on the keyboard
\* listener's; all five build a dictionary and hand it to
\* _add_event_to_queue, which does not look at it, so one callback stands
\* for each thread
Callbacks(l) == IF l = "mouse" THEN {"move"} ELSE {"press"}

NoEvent == [action |-> "none", beg |-> 0]

VARIABLES
  is_recording,   \* self._is_recording
  is_paused,      \* self._is_paused
  lock,           \* holder of self._lock, or "free"
  event_queue,    \* self.event_queue, a FIFO of records
  events_file,    \* self.events_file: "none", "open" or "closed"
  events_jsonl,   \* the lines appended to events.jsonl, one record each
  listener,       \* state of each pynput listener: "new", "running", "stopped"
  runPc,          \* position of the recorder thread inside run()
  runs,           \* how many times run() has been entered
  pc,             \* position of each producer thread
  op,             \* the control call a caller is executing ("none" otherwise)
  ev,             \* the event_data a producer is about to enqueue
  sent,           \* records each producer has put on the queue
  obs,            \* capture state of the OBS backend
  obsCalls,       \* the requests that reached the backend, in arrival order
  hist,           \* the flag transitions performed, in order
  metaCalls,      \* the calls made on the metadata manager, in order
  emitted         \* emissions of the recording_stopped signal

vars == <<is_recording, is_paused, lock, event_queue, events_file, events_jsonl,
          listener, runPc, runs, pc, op, ev, sent, obs, obsCalls, hist,
          metaCalls, emitted>>

flagVars  == <<is_recording, is_paused>>
fileVars  == <<events_file, events_jsonl>>
runVars   == <<runPc, runs>>
prodVars  == <<pc, op, ev, sent>>
obsVars   == <<obs, obsCalls>>

\* ------------------------------------------------------------------ helpers
Count(s, x) == Cardinality({i \in 1..Len(s) : s[i] = x})

\* the reading of time.perf_counter()
Now == Len(hist)

\* the flag pair and the number of stops after the first n transitions
RECURSIVE FlagsAfter(_)
FlagsAfter(n) ==
  IF n = 0 THEN [rec |-> FALSE, paused |-> FALSE, stops |-> 0]
  ELSE LET f == FlagsAfter(n - 1)
           o == hist[n]
       IN  CASE o = "start"  -> [f EXCEPT !.rec = TRUE]
             [] o = "pause"  -> [f EXCEPT !.paused = TRUE]
             [] o = "resume" -> [f EXCEPT !.paused = FALSE]
             [] o = "stop"   -> [f EXCEPT !.rec = FALSE, !.stops = @ + 1]
             [] OTHER        -> f

\* the session state a flag pair stands for; Idle and Stopped both have
\* _is_recording False and differ by whether a stop has been performed
StateOf(f) ==
  IF f.rec THEN (IF f.paused THEN "Paused" ELSE "Recording")
  ELSE IF f.stops > 0 THEN "Stopped" ELSE "Idle"

StateAfter(n) == StateOf(FlagsAfter(n))

SessionState ==
  StateOf([rec |-> is_recording, paused |-> is_paused, stops |-> Count(hist, "stop")])

\* --------------------------------------------------------- the OBS backend
\* obs-websocket answers a request that does not fit the capture state with
\* an error, which obsws_python raises as OBSSDKRequestError
ObsValid(o, s) ==
  CASE o = "start"  -> s \in {"idle", "stopped"}
    [] o = "pause"  -> s = "recording"
    [] o = "resume" -> s = "paused"
    [] o = "stop"   -> s \in {"recording", "paused"}
    [] OTHER        -> FALSE

ObsNext(o, s) ==
  CASE o = "start"  -> "recording"
    [] o = "pause"  -> "paused"
    [] o = "resume" -> "recording"
    [] o = "stop"   -> "stopped"
    [] OTHER        -> s

\* the requests so far that failed for another reason than the capture state
\* (the connection, the profile switch after stop_record)
Faults == Cardinality({i \in 1..Len(obsCalls) : obsCalls[i].fault})

\* OBSClient.start_recording / stop_recording / pause_recording /
\* resume_recording: the request reaches the backend and either succeeds or
\* raises; a request the capture state does not allow always raises.
\* stop_recording also raises when stop_record() went through and restoring
\* the profile failed: the capture is stopped then
ObsRequest(o, ok) ==
  /\ ok => ObsValid(o, obs)
  /\ (~ok /\ ObsValid(o, obs)) => Faults < MaxFaults
  /\ obs' \in IF ok THEN {ObsNext(o, obs)}
              ELSE IF o = "stop" /\ ObsValid(o, obs) THEN {obs, ObsNext(o, obs)}
              ELSE {obs}
  /\ obsCalls' = Append(obsCalls, [op |-> o, ok |-> ok,
                                   fault |-> ~ok /\ ObsValid(o, obs)])

Init ==
  /\ is_recording = FALSE
  /\ is_paused = FALSE
  /\ lock = "free"
  /\ event_queue = <<>>
  /\ events_file = "none"
  /\ events_jsonl = <<>>
  /\ listener = [l \in Listeners |-> "new"]
  /\ runPc = "idle"
  /\ runs = 0
  /\ pc = [p \in Producers |-> "idle"]
  /\ op = [p \in Producers |-> "none"]
  /\ ev = [p \in Producers |-> NoEvent]
  /\ sent = [p \in Producers |-> 0]
  /\ obs = "idle"
  /\ obsCalls = <<>>
  /\ hist = <<>>
  /\ metaCalls = <<>>
  /\ emitted = 0

\* ------------------------------------------------------ the recorder thread
\* run(), line 80: the flag is set without the lock and without a test
RunEnter ==
  /\ is_recording' = TRUE
  /\ hist' = Append(hist, "start")
  /\ runPc' = "collect"
  /\ runs' = runs + 1
  /\ UNCHANGED <<is_paused, lock, event_queue, fileVars, listener,
                 prodVars, obsVars, metaCalls, emitted>>

\* QThread.start() on a recorder that has not run yet
RunStart ==
  /\ runPc = "idle"
  /\ runs = 0
  /\ RunEnter

\* QThread.start() on a recorder whose run() has returned: run() is entered
\* again on the same object
RunAgain ==
  /\ runPc = "done"
  /\ runs < MaxRuns
  /\ RunEnter

\* self.metadata_manager.collect()
RunCollect ==
  /\ runPc = "collect"
  /\ metaCalls' = Append(metaCalls, "collect")
  /\ runPc' = "obs_start"
  /\ UNCHANGED <<flagVars, lock, event_queue, fileVars, listener, runs,
                 prodVars, obsVars, hist, emitted>>

\* self.obs_client.start_recording(): an exception leaves the try block for
\* the finally clause
RunObsStart ==
  /\ runPc = "obs_start"
  /\ \E ok \in BOOLEAN :
       /\ ObsRequest("start", ok)
       /\ runPc' = IF ok THEN "listeners" ELSE "cleanup"
  /\ UNCHANGED <<flagVars, lock, event_queue, fileVars, listener, runs,
                 prodVars, hist, metaCalls, emitted>>

\* _start_listeners(): mouse_listener.start() then keyboard_listener.start();
\* a thread that was started before raises RuntimeError, and any exception
\* skips what is left of the try block and is logged
RunStartListeners ==
  /\ runPc = "listeners"
  /\ \E okM \in BOOLEAN, okK \in BOOLEAN :
       LET mouseUp == okM /\ listener["mouse"] = "new"
           keyUp   == mouseUp /\ okK /\ listener["keyboard"] = "new"
       IN  listener' = [l \in Listeners |->
                          IF (l = "mouse" /\ mouseUp) \/ (l = "keyboard" /\ keyUp)
                          THEN "running" ELSE listener[l]]
  /\ runPc' = "open"
  /\ UNCHANGED <<flagVars, lock, event_queue, fileVars, runs,
                 prodVars, obsVars, hist, metaCalls, emitted>>

\* _open_event_file(): open(..., "a"); a failure is logged and events_file
\* keeps its value
RunOpenFile ==
  /\ runPc = "open"
  /\ \E ok \in BOOLEAN : events_file' = IF ok THEN "open" ELSE events_file
  /\ runPc' = "loop"
  /\ UNCHANGED <<flagVars, lock, event_queue, events_jsonl, listener, runs,
                 prodVars, obsVars, hist, metaCalls, emitted>>

\* variant: the loop never tests the flag
RunLoopTest_forever ==
  /\ runPc = "loop"
  /\ runPc' = "get"
  /\ UNCHANGED <<flagVars, lock, event_queue, fileVars, listener, runs,
                 prodVars, obsVars, hist, metaCalls, emitted>>

\* while self._is_recording:
RunLoopTest ==
  /\ runPc = "loop"
  /\ runPc' = IF is_recording THEN "get" ELSE "cleanup"
  /\ UNCHANGED <<flagVars, lock, event_queue, fileVars, listener, runs,
                 prodVars, obsVars, hist, metaCalls, emitted>>

\* _log_event(event): one line per record when a file is open; with no file
\* nothing is written, and the write on a closed file raises and is logged
LogEvent(e) ==
  events_jsonl' = IF events_file = "open" THEN Append(events_jsonl, e)
                                           ELSE events_jsonl

\* variant: the newest record is taken instead of the oldest
RunGet_lifo ==
  /\ runPc = "get"
  /\ event_queue # <<>>
  /\ event_queue' = SubSeq(event_queue, 1, Len(event_queue) - 1)
  /\ LogEvent(event_queue[Len(event_queue)])
  /\ runPc' = "loop"
  /\ UNCHANGED <<flagVars, lock, events_file, listener, runs,
                 prodVars, obsVars, hist, metaCalls, emitted>>

\* event = self.event_queue.get(timeout=0.1) with a record there, then
\* self._log_event(event)
RunGet ==
  /\ runPc = "get"
  /\ event_queue # <<>>
  /\ event_queue' = Tail(event_queue)
  /\ LogEvent(Head(event_queue))
  /\ runPc' = "loop"
  /\ UNCHANGED <<flagVars, lock, events_file, listener, runs,
                 prodVars, obsVars, hist, metaCalls, emitted>>

\* variant: get() without a timeout waits until a record arrives
RunGetEmpty_blocking ==
  /\ runPc = "get"
  /\ event_queue = <<>>
  /\ runPc' = "get"
  /\ UNCHANGED <<flagVars, lock, event_queue, fileVars, listener, runs,
                 prodVars, obsVars, hist, metaCalls, emitted>>

\* the get() times out: Empty is raised and the loop continues
RunGetEmpty ==
  /\ runPc = "get"
  /\ event_queue = <<>>
  /\ runPc' = "loop"
  /\ UNCHANGED <<flagVars, lock, event_queue, fileVars, listener, runs,
                 prodVars, obsVars, hist, metaCalls, emitted>>

\* the calls _cleanup_resources() makes on the listeners and the file, in
\* order: stop() on each listener whose `running` is true, close() when
\* self.events_file is set (a closed file object is still true)
CleanupCalls ==
  (IF listener["mouse"] = "running" THEN <<"mouse">> ELSE <<>>) \o
  (IF listener["keyboard"] = "running" THEN <<"keyboard">> ELSE <<>>) \o
  (IF events_file # "none" THEN <<"close">> ELSE <<>>)

\* finally: _cleanup_resources(). The first k calls return; the next one, if
\* there is one, raises, which skips the rest of the try block, save_metadata()
\* included, and is logged. A listener whose stop() raised may have stopped or
\* not; a file whose close() raised is closed
RunCleanup ==
  /\ runPc = "cleanup"
  /\ \E k \in 0..Len(CleanupCalls), halted \in BOOLEAN :
       LET returned == {CleanupCalls[i] : i \in 1..k}
           raised   == IF k < Len(CleanupCalls) THEN CleanupCalls[k + 1] ELSE "none"
       IN  /\ halted => raised \in Listeners
           /\ listener' = [l \in Listeners |->
                             IF l \in returned \/ (l = raised /\ halted)
                             THEN "stopped" ELSE listener[l]]
           /\ events_file' = IF "close" \in returned \/ raised = "close"
                             THEN "closed" ELSE events_file
           /\ metaCalls' = IF raised = "none" THEN Append(metaCalls, "save")
                                              ELSE metaCalls
  /\ runPc' = "done"
  /\ UNCHANGED <<flagVars, lock, event_queue, events_jsonl, runs,
                 prodVars, obsVars, hist, emitted>>

\* ----------------------------------------------------- _add_event_to_queue
\* the producer leaves the function it is in and goes back to waiting
Return(p) ==
  /\ pc' = [pc EXCEPT ![p] = "idle"]
  /\ op' = [op EXCEPT ![p] = "none"]
  /\ ev' = [ev EXCEPT ![p] = NoEvent]

\* the event_data dictionary a caller of _add_event_to_queue passes in; beg
\* remembers the clock when the dictionary was built
EventData(a) == [action |-> a, beg |-> Now]

\* the record that goes on the queue: event_data with its time_stamp, tagged
\* with the producer and the producer's running number
Record(p) ==
  [src |-> p, n |-> sent[p] + 1, action |-> ev[p].action, ts |-> Now]

\* variant: the test leaves out _is_paused
Admits_paused == is_recording

\* the test at line 189
Admits == ~is_paused /\ is_recording

\* event_data["time_stamp"] = time.perf_counter()
\* self.event_queue.put(event_data, block=False)
AddPut(p) ==
  /\ pc[p] = "stamp"
  /\ event_queue' = Append(event_queue, Record(p))
  /\ sent' = [sent EXCEPT ![p] = @ + 1]
  /\ Return(p)
  /\ UNCHANGED <<flagVars, lock, fileVars, listener, runVars,
                 obsVars, hist, metaCalls, emitted>>

\* ----------------------------------------------------------- the listeners
\* on_move / on_click / on_scroll on the mouse listener's thread, on_press /
\* on_release on the keyboard listener's: each builds its event_data and
\* calls _add_event_to_queue
ListenerCallback(l) ==
  /\ pc[l] = "idle"
  /\ listener[l] = "running"
  /\ sent["mouse"] + sent["keyboard"] < MaxEvents
  /\ \E a \in Callbacks(l) : ev' = [ev EXCEPT ![l] = EventData(a)]
  /\ pc' = [pc EXCEPT ![l] = "check"]
  /\ UNCHANGED <<flagVars, lock, event_queue, fileVars, listener, runVars,
                 op, sent, obsVars, hist, metaCalls, emitted>>

\* _add_event_to_queue called from a callback: the test at line 189
ListenerCheck(l) ==
  /\ pc[l] = "check"
  /\ IF Admits
       THEN /\ pc' = [pc EXCEPT ![l] = "stamp"]
            /\ UNCHANGED <<op, ev>>
       ELSE Return(l)
  /\ UNCHANGED <<flagVars, lock, event_queue, fileVars, listener, runVars,
                 sent, obsVars, hist, metaCalls, emitted>>

\* the thread of a listener ends by itself while the session goes on (pynput
\* ends a listener whose callback raised, or whose platform hook failed);
\* `running` is false from then on. The recorder has no code that looks at it
ListenerDies(l) ==
  /\ listener[l] = "running"
  /\ listener' = [listener EXCEPT ![l] = "dead"]
  /\ UNCHANGED <<flagVars, lock, event_queue, fileVars, runVars,
                 prodVars, obsVars, hist, metaCalls, emitted>>

\* ------------------------------------------------------- the control calls
\* a thread calls stop_recording / pause_recording / resume_recording and
\* enters `with self._lock:`, which waits until the lock is free
CallBegin(c, o) ==
  /\ pc[c] = "idle"
  /\ lock = "free"
  /\ o = "pause" => Count(hist, "pause") < MaxPauses
  /\ lock' = c
  /\ op' = [op EXCEPT ![c] = o]
  /\ pc' = [pc EXCEPT ![c] = "gate"]
  /\ UNCHANGED <<flagVars, event_queue, fileVars, listener, runVars,
                 ev, sent, obsVars, hist, metaCalls, emitted>>

\* the call returns from inside the with block: the lock is released
GateReturn(c) ==
  /\ lock' = "free"
  /\ Return(c)
  /\ UNCHANGED <<flagVars, hist>>

\* variant: the rest of the call is indented into the with block, so the
\* lock is kept after the flag is written
GatePass_locked(c, o) ==
  /\ lock' = lock
  /\ hist' = Append(hist, o)
  /\ pc' = [pc EXCEPT ![c] = "backend"]
  /\ UNCHANGED <<op, ev>>

\* the with block ends with the flag written: the lock is released and the
\* call goes on to the backend
GatePass(c, o) ==
  /\ lock' = "free"
  /\ hist' = Append(hist, o)
  /\ pc' = [pc EXCEPT ![c] = "backend"]
  /\ UNCHANGED <<op, ev>>

\* variant: stop_recording without the test of _is_recording
StopGate_untested(c) ==
  /\ pc[c] = "gate" /\ op[c] = "stop" /\ lock = c
  /\ is_recording' = FALSE
  /\ UNCHANGED is_paused
  /\ GatePass(c, "stop")
  /\ UNCHANGED <<event_queue, fileVars, listener, runVars,
                 sent, obsVars, metaCalls, emitted>>

\* stop_recording, lines 102-105
StopGate(c) ==
  /\ pc[c] = "gate" /\ op[c] = "stop" /\ lock = c
  /\ IF ~is_recording
       THEN GateReturn(c)
       ELSE /\ is_recording' = FALSE
            /\ UNCHANGED is_paused
            /\ GatePass(c, "stop")
  /\ UNCHANGED <<event_queue, fileVars, listener, runVars,
                 sent, obsVars, metaCalls, emitted>>

\* variant: pause_recording without the test of _is_recording
PauseGate_idle(c) ==
  /\ pc[c] = "gate" /\ op[c] = "pause" /\ lock = c
  /\ IF is_paused
       THEN GateReturn(c)
       ELSE /\ is_paused' = TRUE
            /\ UNCHANGED is_recording
            /\ GatePass(c, "pause")
  /\ UNCHANGED <<event_queue, fileVars, listener, runVars,
                 sent, obsVars, metaCalls, emitted>>

\* pause_recording, lines 120-123
PauseGate(c) ==
  /\ pc[c] = "gate" /\ op[c] = "pause" /\ lock = c
  /\ IF ~is_recording \/ is_paused
       THEN GateReturn(c)
       ELSE /\ is_paused' = TRUE
            /\ UNCHANGED is_recording
            /\ GatePass(c, "pause")
  /\ UNCHANGED <<event_queue, fileVars, listener, runVars,
                 sent, obsVars, metaCalls, emitted>>

\* variant: resume_recording without the test of _is_paused
ResumeGate_unpaused(c) ==
  /\ pc[c] = "gate" /\ op[c] = "resume" /\ lock = c
  /\ IF ~is_recording
       THEN GateReturn(c)
       ELSE /\ is_paused' = FALSE
            /\ UNCHANGED is_recording
            /\ GatePass(c, "resume")
  /\ UNCHANGED <<event_queue, fileVars, listener, runVars,
                 sent, obsVars, metaCalls, emitted>>

\* resume_recording, lines 135-138
ResumeGate(c) ==
  /\ pc[c] = "gate" /\ op[c] = "resume" /\ lock = c
  /\ IF ~is_recording \/ ~is_paused
       THEN GateReturn(c)
       ELSE /\ is_paused' = FALSE
            /\ UNCHANGED is_recording
            /\ GatePass(c, "resume")
  /\ UNCHANGED <<event_queue, fileVars, listener, runVars,
                 sent, obsVars, metaCalls, emitted>>

\* variant: recording_stopped.emit() at the end of the try block instead of
\* the finally clause
StopBackend_emit_in_try(c) ==
  /\ pc[c] = "backend" /\ op[c] = "stop"
  /\ \E ok \in BOOLEAN :
       /\ ObsRequest("stop", ok)
       /\ metaCalls' = IF ok THEN metaCalls \o <<"end_collect", "add_timings">>
                             ELSE metaCalls
       /\ emitted' = IF ok THEN emitted + 1 ELSE emitted
  /\ Return(c)
  /\ UNCHANGED <<flagVars, lock, event_queue, fileVars, listener, runVars,
                 sent, hist>>

\* stop_recording, lines 107-114: obs_client.stop_recording(), then
\* end_collect() and add_obs_record_state_timings(...) unless the backend
\* call raised, then recording_stopped.emit() in the finally clause
StopBackend(c) ==
  /\ pc[c] = "backend" /\ op[c] = "stop"
  /\ \E ok \in BOOLEAN :
       /\ ObsRequest("stop", ok)
       /\ metaCalls' = IF ok THEN metaCalls \o <<"end_collect", "add_timings">>
                             ELSE metaCalls
  /\ emitted' = emitted + 1
  /\ Return(c)
  /\ UNCHANGED <<flagVars, lock, event_queue, fileVars, listener, runVars,
                 sent, hist>>

\* pause_recording / resume_recording, the try block: the backend call, then
\* _add_event_to_queue({"action": ...}) up to its test; an exception of the
\* backend call skips it and is logged
MarkBackend(c) ==
  /\ pc[c] = "backend" /\ op[c] \in {"pause", "resume"}
  /\ \E ok \in BOOLEAN :
       /\ ObsRequest(op[c], ok)
       /\ IF ok /\ Admits
            THEN /\ pc' = [pc EXCEPT ![c] = "stamp"]
                 /\ ev' = [ev EXCEPT ![c] = EventData(op[c])]
                 /\ UNCHANGED op
            ELSE Return(c)
  /\ UNCHANGED <<flagVars, lock, event_queue, fileVars, listener, runVars,
                 sent, hist, metaCalls, emitted>>

\* ------------------------------------------------------------ specification
\* a session driven by two control threads (the UI and an exception hook)
\* while the user gives no input
NextControl ==
  \/ RunStart
  \/ RunCollect
  \/ RunObsStart
  \/ RunStartListeners
  \/ RunOpenFile
  \/ RunLoopTest
  \/ RunGet
  \/ RunGetEmpty
  \/ RunCleanup
  \/ \E c \in Callers, o \in Ops : CallBegin(c, o)
  \/ \E c \in Callers : StopGate(c)
  \/ \E c \in Callers : PauseGate(c)
  \/ \E c \in Callers : ResumeGate(c)
  \/ \E c \in Callers : StopBackend(c)
  \/ \E c \in Callers : MarkBackend(c)
  \/ \E c \in Callers : AddPut(c)

SpecControl == Init /\ [][NextControl]_vars

\* a session driven by the UI thread in which the recorder thread may be
\* started again after run() has returned
NextRestart ==
  \/ RunStart
  \/ RunAgain
  \/ RunCollect
  \/ RunObsStart
  \/ RunStartListeners
  \/ RunOpenFile
  \/ RunLoopTest
  \/ RunGet
  \/ RunGetEmpty
  \/ RunCleanup
  \/ \E o \in Ops : CallBegin("ui", o)
  \/ StopGate("ui")
  \/ PauseGate("ui")
  \/ ResumeGate("ui")
  \/ StopBackend("ui")
  \/ MarkBackend("ui")
  \/ AddPut("ui")

SpecRestart == Init /\ [][NextRestart]_vars

\* a session with user input, driven by the UI thread alone
NextEvents ==
  \/ RunStart
  \/ RunCollect
  \/ RunObsStart
  \/ RunStartListeners
  \/ RunOpenFile
  \/ RunLoopTest
  \/ RunGet
  \/ RunGetEmpty
  \/ RunCleanup
  \/ \E l \in Listeners : ListenerCallback(l)
  \/ \E l \in Listeners : ListenerCheck(l)
  \/ \E p \in Listeners \cup {"ui"} : AddPut(p)
  \/ \E o \in Ops : CallBegin("ui", o)
  \/ StopGate("ui")
  \/ PauseGate("ui")
  \/ ResumeGate("ui")
  \/ StopBackend("ui")
  \/ MarkBackend("ui")

SpecEvents == Init /\ [][NextEvents]_vars

\* what run() does once it has been entered
RunBody ==
  \/ RunCollect
  \/ RunObsStart
  \/ RunStartListeners
  \/ RunOpenFile
  \/ RunLoopTest
  \/ RunGet
  \/ RunGetEmpty
  \/ RunCleanup

\* what the UI thread does once it is inside a control call
CallBody ==
  \/ StopGate("ui")
  \/ PauseGate("ui")
  \/ ResumeGate("ui")
  \/ StopBackend("ui")
  \/ MarkBackend("ui")
  \/ AddPut("ui")

\* a session driven by the UI thread in which a listener may end by itself
NextLive ==
  \/ RunStart
  \/ RunBody
  \/ \E l \in Listeners : ListenerDies(l)
  \/ \E o \in Ops : CallBegin("ui", o)
  \/ CallBody

\* the recorder thread and the UI thread are threads the scheduler keeps
\* running: once entered, run() goes on taking steps, and a control call
\* that has begun goes on to its return. Nothing obliges the user to start
\* the recorder or to call stop, pause or resume
SpecLive == Init /\ [][NextLive]_vars /\ WF_vars(RunBody) /\ WF_vars(CallBody)

\* =================================================================== claims
\* the stop_recording calls that have passed the test and not yet returned
StopsInFlight == {c \in Callers : pc[c] = "backend" /\ op[c] = "stop"}

\* the stop requests that reached the backend
ObsStops == {i \in 1..Len(obsCalls) : obsCalls[i].op = "stop"}

Edges ==
  { <<"Idle", "Recording">>, <<"Recording", "Paused">>, <<"Paused", "Recording">>,
    <<"Recording", "Stopped">>, <<"Paused", "Stopped">> }

\* C2: the session state is one of Idle, Recording, Paused, Stopped and every
\* step that changes it follows one of the five edges start, pause, resume,
\* stop (from Recording) and stop (from Paused).
C2_Edges ==
  [][ /\ SessionState' \in {"Idle", "Recording", "Paused", "Stopped"}
      /\ SessionState' # SessionState => <<SessionState, SessionState'>> \in Edges
    ]_vars

\* a session that went through start, pause, resume and stop
C2_Witness == hist = <<"start", "pause", "resume", "stop">>

\* the control call of c that is at its test under the lock is one the
\* transition table leaves without effect
NoOpCall(c) ==
  /\ pc[c] = "gate"
  /\ \/ op[c] = "pause" /\ SessionState = "Idle"
     \/ op[c] = "resume" /\ SessionState = "Recording"
     \/ SessionState = "Stopped"

\* C8: pause_recording while Idle, resume_recording while Recording and any
\* of the three calls while Stopped return at the test: the flags, the
\* transition history, the backend, the queue and the signal are untouched
\* and the caller is back to idle.
C8_NoOps ==
  [][ \A c \in Callers :
        (NoOpCall(c) /\ pc'[c] # "gate") =>
           /\ pc'[c] = "idle"
           /\ UNCHANGED <<flagVars, hist, obsVars, event_queue, sent,
                          metaCalls, emitted>>
    ]_vars

\* a second stop_recording call is at its test after the first one has
\* stopped the session and emitted the signal
C8_Witness ==
  \E c \in Callers :
     /\ NoOpCall(c)
     /\ op[c] = "stop"
     /\ emitted = 1

\* every request was answered without an error
AllOk == \A i \in 1..Len(obsCalls) : obsCalls[i].ok

\* C9: once the session is Stopped no step takes it to another state, a
\* second start of the recorder thread included (stated for the sessions in
\* which no backend request fails).
C9_StoppedAbsorbing ==
  [][(SessionState = "Stopped" /\ AllOk) => SessionState' = "Stopped"]_vars

\* no control call is in progress and run() has issued its start request
Quiescent ==
  /\ \A c \in Callers : pc[c] = "idle"
  /\ runPc \notin {"collect", "obs_start"}

\* the requests in the order the backend received them
ObsOps == [i \in 1..Len(obsCalls) |-> obsCalls[i].op]

\* the capture state that corresponds to a session state
BackendOf(st) ==
  CASE st = "Idle"      -> "idle"
    [] st = "Recording" -> "recording"
    [] st = "Paused"    -> "paused"
    [] st = "Stopped"   -> "stopped"

\* C10: the backend receives the requests in the order of the transitions
\* that caused them, and once every call has returned without a backend
\* error the capture state is the one the session state stands for.
C10_LockStep ==
  (Quiescent /\ Faults = 0) =>
    /\ ObsOps = hist
    /\ AllOk => obs = BackendOf(SessionState)

\* the second half of C10 on its own
C10_MatchWhenOk == (Quiescent /\ AllOk) => obs = BackendOf(SessionState)

\* run() got past its start request, so it went on into the consumer loop
LoopEntered == \E i \in 1..Len(obsCalls) : obsCalls[i].op = "start" /\ obsCalls[i].ok

\* run() has left the consumer loop
LoopLeft == runPc \in {"cleanup", "done"} /\ LoopEntered

\* C3: when the consumer loop has exited after a stop, no record that a
\* listener enqueued while the session was Recording is still on the queue:
\* each has been taken off and handed to _log_event.
C3_Drained ==
  (LoopLeft /\ SessionState = "Stopped") =>
     \A i \in 1..Len(event_queue) :
        event_queue[i].src \in Listeners => StateAfter(event_queue[i].ts) # "Recording"

\* the records written and the records waiting, oldest first
Stream == events_jsonl \o event_queue

\* C4: no record is in the event log twice, and the records of one producer
\* are in the log, and after them on the queue, in the order in which that
\* producer enqueued them.
C4_Fifo ==
  \A i \in 1..Len(Stream), j \in 1..Len(Stream) :
     (i < j /\ Stream[i].src = Stream[j].src) => Stream[i].n < Stream[j].n

\* the log holds two records of one listener and a record of another
\* producer
C4_Witness ==
  \E i \in 1..Len(events_jsonl), j \in 1..Len(events_jsonl), k \in 1..Len(events_jsonl) :
     /\ i < j
     /\ events_jsonl[i].src = events_jsonl[j].src
     /\ events_jsonl[i].src \in Listeners
     /\ events_jsonl[k].src # events_jsonl[i].src

\* the clock at the stop transition: a stamp taken after it reads at least
\* this
StopTime == CHOOSE i \in 1..Len(hist) : hist[i] = "stop"

\* C5: no record in the event log carries a time stamp taken after the
\* stop transition.
C5_NoLateRecord ==
  Count(hist, "stop") > 0 =>
     \A i \in 1..Len(events_jsonl) : events_jsonl[i].ts < StopTime

\* C6: a listener callback whose test runs while the session is Paused,
\* Idle or Stopped returns without enqueuing anything; and a callback during
\* which no transition happens enqueues only while the session is Recording.
C6_InputGate ==
  [][ \A l \in Listeners :
        /\ (pc[l] = "check" /\ pc'[l] # "check" /\ SessionState # "Recording") =>
              /\ pc'[l] = "idle"
              /\ UNCHANGED <<event_queue, sent>>
        /\ (pc[l] = "stamp" /\ pc'[l] # "stamp" /\ ev[l].beg = Now) =>
              SessionState = "Recording"
    ]_vars

\* a callback that began while the session is Paused is at its test
C6_Witness ==
  \E l \in Listeners :
     /\ pc[l] = "check"
     /\ ev[l].beg = Now
     /\ SessionState = "Paused"

\* C7 as stated: a record is appended to the event log only while the
\* session state is Recording, so no write happens while it is Paused.
C7_NoWriteWhilePaused ==
  [][events_jsonl' # events_jsonl => SessionState # "Paused"]_vars

\* C7, amended: a record is appended only in a loop iteration that was
\* entered while _is_recording was True, that is while the session was
\* Recording or Paused; the write itself happens while the session is
\* Recording, Paused or Stopped, never while it is Idle.
C7_WriteInIteration ==
  [][ /\ (runPc # "get" /\ runPc' = "get") => SessionState \in {"Recording", "Paused"}
      /\ events_jsonl' # events_jsonl => (runPc = "get" /\ SessionState # "Idle")
    ]_vars

\* the session is Paused and the log holds a record stamped since the pause:
\* it was written while the session was Paused
C7_Witness ==
  /\ SessionState = "Paused"
  /\ \E i \in 1..Len(events_jsonl) : events_jsonl[i].ts = Now

\* the start request of run() was answered with an error
StartFailed ==
  \E i \in 1..Len(obsCalls) : obsCalls[i].op = "start" /\ ~obsCalls[i].ok

\* run() is past _start_listeners() and a listener was not started
ListenerFailed ==
  /\ runPc \in {"open", "loop", "get"}
  /\ \E l \in Listeners : listener[l] = "new"

\* C11: once startup has failed in run(), because the backend start request
\* raised or a listener could not be started, the session is neither
\* Recording nor Paused: startup was aborted and pause_recording() and
\* resume_recording() find nothing to act on.
C11_StartupAborts ==
  (StartFailed \/ ListenerFailed) => SessionState \notin {"Recording", "Paused"}

\* C12: a pause_recording, resume_recording or stop_recording call whose
\* backend request raises returns to its caller normally; the transition it
\* performed under the lock stands (the flags are those the transition
\* history gives, and the history still holds the call's transition), the
\* session state is one of the four, and a stop has emitted
\* recording_stopped once.
C12_BackendFailure ==
  [][ \A c \in Callers :
        (pc[c] = "backend" /\ pc'[c] # "backend" /\ ~obsCalls'[Len(obsCalls')].ok) =>
           /\ pc'[c] = "idle"
           /\ hist' = hist
           /\ Count(hist, op[c]) > 0
           /\ is_recording' = FlagsAfter(Len(hist)).rec
           /\ is_paused' = FlagsAfter(Len(hist)).paused
           /\ SessionState' \in {"Idle", "Recording", "Paused", "Stopped"}
           /\ SessionState' = StateAfter(Len(hist))
           /\ op[c] = "stop" => emitted' = emitted + 1
    ]_vars

\* the stop request failed although the capture was running, the session is
\* Stopped and the signal was emitted
C12_Witness ==
  /\ obsCalls # <<>>
  /\ obsCalls[Len(obsCalls)].op = "stop"
  /\ obsCalls[Len(obsCalls)].fault
  /\ SessionState = "Stopped"
  /\ emitted = 1

\* C13: when no stop_recording call is in progress, every stop that was
\* performed has handed record_state_events to the metadata manager
\* (add_obs_record_state_timings), whether its backend request succeeded or
\* not.
C13_HandOff ==
  StopsInFlight = {} => Count(metaCalls, "add_timings") = Count(hist, "stop")

\* C14: when run() returns, on whatever path it left the try block, no
\* listener is running and the event log is not open; and the cleanup
\* releases nothing a second time: it does not close a file that is already
\* closed and leaves a stopped listener alone.
C14_ReleasedOnce ==
  [][ (runPc = "cleanup" /\ runPc' = "done") =>
         /\ \A l \in Listeners : listener'[l] # "running"
         /\ events_file' # "open"
         /\ events_file # "closed"
         /\ \A l \in Listeners : listener[l] # "running" => listener'[l] = listener[l]
    ]_vars

\* C15: once a stop_recording() call has performed the stop, run() leaves
\* its loop, runs _cleanup_resources() and returns, however empty the queue
\* is (the recorder thread keeps being scheduled).
C15_StopObserved == (Count(hist, "stop") > 0) ~> (runPc = "done")

\* the stop was performed while the consumer waits in get() on an empty
\* queue
C15_Witness ==
  /\ Count(hist, "stop") = 1
  /\ runPc = "get"
  /\ event_queue = <<>>

\* C16: a listener that died during the session is running again after a
\* while (it was restarted), or else the session has gone to Stopped.
C16_Restarted ==
  \A l \in Listeners :
     (listener[l] = "dead") ~> (listener[l] = "running" \/ SessionState = "Stopped")

\* C17: every step that writes _is_recording or _is_paused (each write adds
\* a transition to the history) is taken by a thread that holds the lock:
\* a caller inside its with block.
C17_WritesUnderLock ==
  [][ hist' # hist => \E c \in Callers : lock = c /\ pc[c] = "gate" /\ pc'[c] # "gate"
    ]_vars

\* C18: the lock is held only by a caller that is at its test inside the
\* with block; the step such a caller takes releases the lock and neither
\* calls the backend, nor enqueues, nor writes the log, nor emits; and a
\* caller that does one of these does not hold the lock.
C18_LockScope ==
  [][ /\ lock \in Callers \cup {"free"}
      /\ \A c \in Callers :
           /\ lock = c => pc[c] = "gate"
           /\ (lock = c /\ pc'[c] # pc[c]) =>
                 /\ lock' = "free"
                 /\ UNCHANGED <<obsVars, event_queue, fileVars, emitted>>
           /\ (pc'[c] # pc[c] /\ (obsCalls' # obsCalls \/ event_queue' # event_queue
                                   \/ emitted' # emitted)) => lock # c
    ]_vars

\* a caller has made its backend call and is about to enqueue its marker
\* while the other caller holds the lock
C18_Witness ==
  \E c \in Callers, d \in Callers :
     /\ c # d
     /\ pc[c] = "stamp"
     /\ lock = d

\* C19: _is_paused is True only while _is_recording is True.
C19_PausedImpliesRecording == is_paused => is_recording

\* C20: a pause_recording or resume_recording call that performed its
\* transition and whose backend request succeeded, with no stop performed so
\* far, goes on to enqueue a record with its action, and the put adds that
\* one record to the queue.
C20_Markers ==
  [][ \A c \in Callers :
        /\ (/\ pc[c] = "backend" /\ op[c] \in {"pause", "resume"}
            /\ pc'[c] # "backend"
            /\ obsCalls'[Len(obsCalls')].ok
            /\ Count(hist, "stop") = 0) =>
               /\ pc'[c] = "stamp"
               /\ ev'[c].action = op[c]
        /\ (pc[c] = "stamp" /\ pc'[c] # "stamp") =>
               /\ Len(event_queue') = Len(event_queue) + 1
               /\ event_queue'[Len(event_queue')].action = op[c]
    ]_vars

\* C21: in a session ended by stop_recording() the calls end_collect() and
\* add_obs_record_state_timings() of the stopping thread come before the
\* save_metadata() of the recorder thread's cleanup: no finalisation call
\* follows a save.
C21_FinaliseBeforeSave ==
  \A i \in 1..Len(metaCalls), j \in 1..Len(metaCalls) :
     (metaCalls[i] = "save" /\ metaCalls[j] \in {"end_collect", "add_timings"}) => j < i

====
